---- MODULE Spec2Model ----
(***************************************************************************)
(* State machine of the Home component of                                  *)
(* planing-github/frontend/src/app/page.tsx: the filter inputs, the        *)
(* bundle-list effect, the detail-loading effect, ask, speak and voiceAsk, *)
(* with every network request and every speech recognition held "in        *)
(* flight" between the step that issues it and the step that handles its   *)
(* outcome.  One action is one run of a handler up to its next await.      *)
(*                                                                         *)
(* A closure created by a render reads the state of that render: the       *)
(* value of `selected` an async function sees after an await is the one    *)
(* captured when it was called, so every in-flight record carries it.      *)
(* A state setter called with the current value does not re-render, so    *)
(* the effect that depends on it does not run again.                       *)
(***************************************************************************)
EXTENDS Integers, Sequences, FiniteSets, TLC

\* ------------------------------------------------------------------ bounds
\* network requests issued in one behaviour; a recognition that is listening
\* counts as the chat request its result will issue
MaxRequests == 4

\* ------------------------------------------------------------ value sets
Null == "null"

Bundle(id) == [site_bundle_id |-> id]

\* bodies the list endpoint answers with: a JSON array, or another shape
ListBodies ==
  { [isArray |-> TRUE,  items |-> <<>>],
    [isArray |-> TRUE,  items |-> <<Bundle("b1"), Bundle("b2")>>],
    [isArray |-> TRUE,  items |-> <<Bundle("b2")>>],
    [isArray |-> FALSE, items |-> <<>>] }

\* what the user can type into the three filter inputs
CouncilInputs == {"", "Camden"}
QInputs       == {"", "road"}
MinAppsInputs == { <<>>, <<"a", "b", "c">>, <<"-", "3">> }

Digits == <<"0", "1", "2", "3", "4", "5", "6", "7", "8", "9">>

IsDigit(c) == \E i \in 1..10 : Digits[i] = c

DigitVal(c) == (CHOOSE i \in 1..10 : Digits[i] = c) - 1

\* a JavaScript number: an integer or NaN
Num(n) == [nan |-> FALSE, n |-> n]
NaN    == [nan |-> TRUE,  n |-> 0]

RECURSIVE ParseDigits(_, _, _)
\* the value of the longest prefix of digits of s from position i on
ParseDigits(s, i, acc) ==
  IF i > Len(s) \/ ~IsDigit(s[i]) THEN acc
  ELSE ParseDigits(s, i + 1, acc * 10 + DigitVal(s[i]))

RECURSIVE SkipSpaces(_, _)
SkipSpaces(s, i) ==
  IF i <= Len(s) /\ s[i] = " " THEN SkipSpaces(s, i + 1) ELSE i

\* parseInt(s): leading blanks, an optional sign, then digits; NaN without
\* a digit
ParseInt(s) ==
  LET i    == SkipSpaces(s, 1)
      neg  == i <= Len(s) /\ s[i] = "-"
      j    == IF i <= Len(s) /\ s[i] \in {"-", "+"} THEN i + 1 ELSE i
  IN  IF j > Len(s) \/ ~IsDigit(s[j]) THEN NaN
      ELSE Num(IF neg THEN 0 - ParseDigits(s, j, 0) ELSE ParseDigits(s, j, 0))

RECURSIVE NatToStr(_)
NatToStr(n) ==
  IF n < 10 THEN <<Digits[n + 1]>>
  ELSE NatToStr(n \div 10) \o <<Digits[(n % 10) + 1]>>

\* String(x) of a number
ToStr(x) ==
  IF x.nan THEN <<"N", "a", "N">>
  ELSE IF x.n < 0 THEN <<"-">> \o NatToStr(0 - x.n)
  ELSE NatToStr(x.n)

\* e.target.value || "5"
OrFive(s) == IF s = <<>> THEN <<"5">> ELSE s

\* --------------------------------------------------------------- state
\* text of a quick button; what the user types into the question input or
\* says to the microphone is any text, here the same one
QuickTexts == {"Summarise what changed recently and what I should do next."}
TypedTexts == QuickTexts
VoiceTexts == QuickTexts

Citation(ref) == [planning_reference |-> ref, url |-> "u"]

\* JSON bodies the chat endpoint answers a 2xx with; a field may be absent
ChatBodies ==
  { [hasAnswer |-> TRUE,  answer |-> "answer", hasCitations |-> TRUE,
     citations |-> << Citation("r1"), Citation("r2"), Citation("r3"),
                      Citation("r4"), Citation("r5") >>],
    [hasAnswer |-> FALSE, answer |-> "", hasCitations |-> FALSE,
     citations |-> <<>>] }

VARIABLES
  council, q, minApps,   \* filter inputs
  bundles,               \* displayed list
  selected,              \* selected bundle id or Null
  commits, overview,     \* displayed history and overview
  chat,                  \* transcript
  loading,               \* waiting indicator
  err,                   \* last-error slot
  bundlesFetches,        \* list fetches in flight
  repoFetches,           \* detail loads (history + overview) in flight
  chatFetches,           \* chat requests in flight
  ttsFetches,            \* tts requests in flight
  recognitions,          \* speech recognitions listening
  srSupported,           \* window.SpeechRecognition is present
  issued,                \* how many requests of each kind were issued
  bundlesFrom,           \* the list fetch that produced `bundles`
  caught                 \* the last step ran a catch block: it handled a
                         \* request that failed

vars == << council, q, minApps, bundles, selected, commits, overview, chat,
           loading, err, bundlesFetches, repoFetches, chatFetches,
           ttsFetches, recognitions, srSupported, issued,
           bundlesFrom, caught >>

filterVars == << council, q, minApps >>
detailVars == << commits, overview >>
chatVars   == << chat, loading, chatFetches >>
voiceVars  == << ttsFetches, recognitions, srSupported >>

\* what GET /repo/{id} and GET /repo/{id}/overview hold for bundle id
\* (the body of b2 has no `commits` field)
RepoBody(id) ==
  [ hasCommits |-> id # "b2",
    commits    |-> << [bundle |-> id, planning_reference |-> "ref"] >> ]
RepoOverview(id) == [bundle |-> id, stage |-> "stage"]

\* the null of `overview`, as a record so that it compares with one
NoOverview == [bundle |-> Null, stage |-> Null]

\* ------------------------------------------------------- error messages
\* each message by its fixed part; the text of the thrown error follows it
ErrBundles  == "Failed to load bundles"
ErrRepo     == "Failed to load repo"
ErrChat     == "Chat failed"
ErrTts      == "Voice failed"
ErrNoSR     == "Voice input requires Chrome (SpeechRecognition not supported here)."

\* requests issued so far
Total(i) == i.bundles + i.repo + i.chat + i.tts

\* another request may be issued, or another recognition started, within the
\* bound
Budget == Total(issued) + Cardinality(recognitions) < MaxRequests

\* ------------------------------------------------- bundle-list effect
\* the URL the effect builds; an empty council or q is left out
BundlesUrl(c, s, m) ==
  [ council  |-> IF c # "" THEN c ELSE Null,
    q        |-> IF s # "" THEN s ELSE Null,
    min_apps |-> ToStr(m),
    limit    |-> "200" ]

\* the effect body up to `await fetch`: clears the error and issues the
\* request; the closure keeps the `selected` of this render
RunBundlesEffect(c, s, m) ==
  /\ Budget
  /\ err' = Null
  /\ bundlesFetches' = bundlesFetches \cup
       { [ seq |-> issued.bundles + 1, url |-> BundlesUrl(c, s, m),
           selected |-> selected ] }
  /\ issued' = [issued EXCEPT !.bundles = @ + 1]
  /\ bundlesFrom' = bundlesFrom

\* the detail effect body up to `await Promise.all`: nothing when
\* selected is null, else clears the error and issues the two requests
RunRepoEffect(sel) ==
  IF sel = Null
  THEN /\ repoFetches' = repoFetches
       /\ issued' = issued
       /\ err' = err
  ELSE /\ err' = Null
       /\ repoFetches' = repoFetches \cup
            { [ seq |-> issued.repo + 1, selected |-> sel ] }
       /\ issued' = [issued EXCEPT !.repo = @ + 1]

Init ==
  /\ council = ""
  /\ q = ""
  /\ minApps = Num(5)
  /\ bundles = <<>>
  /\ selected = Null
  /\ commits = <<>>
  /\ overview = NoOverview
  /\ chat = <<>>
  /\ loading = FALSE
  /\ err = Null
  /\ bundlesFetches = { [ seq |-> 1, url |-> BundlesUrl("", "", Num(5)),
                          selected |-> Null ] }
  /\ repoFetches = {}
  /\ chatFetches = {}
  /\ ttsFetches = 0
  /\ recognitions = {}
  /\ srSupported \in BOOLEAN
  /\ issued = [bundles |-> 1, repo |-> 0, chat |-> 0, tts |-> 0]
  /\ bundlesFrom = 0
  /\ caught = FALSE

\* onChange of the council input
SetCouncil ==
  \E v \in CouncilInputs :
    /\ v # council
    /\ council' = v
    /\ RunBundlesEffect(v, q, minApps)
    /\ caught' = FALSE
    /\ UNCHANGED << q, minApps, bundles, selected, detailVars, chatVars,
                    repoFetches, voiceVars >>

\* onChange of the search input
SetQ ==
  \E v \in QInputs :
    /\ v # q
    /\ q' = v
    /\ RunBundlesEffect(council, v, minApps)
    /\ caught' = FALSE
    /\ UNCHANGED << council, minApps, bundles, selected, detailVars, chatVars,
                    repoFetches, voiceVars >>

\* onChange of the "Min commits" input with e.target.value = v
OnMinAppsChange(v) ==
  LET m == ParseInt(OrFive(v)) IN
  /\ m # minApps
  /\ minApps' = m
  /\ RunBundlesEffect(council, q, m)
  /\ caught' = FALSE
  /\ UNCHANGED << council, q, bundles, selected, detailVars, chatVars,
                  repoFetches, voiceVars >>

SetMinApps == \E v \in MinAppsInputs : OnMinAppsChange(v)

\* mutant: the detail effect runs for id although the selection is not set
SetSelectedNotStored(id) ==
  /\ selected' = selected
  /\ IF id # selected
     THEN /\ Budget
          /\ RunRepoEffect(id)
     ELSE UNCHANGED << repoFetches, issued, err >>

\* setSelected(id) followed by the render it causes: the detail effect
\* runs when the value changed
SetSelected(id) ==
  /\ selected' = id
  /\ IF id # selected
     THEN /\ Budget
          /\ RunRepoEffect(id)
     ELSE UNCHANGED << repoFetches, issued, err >>

\* mutant: the last entry instead of the first
FirstIdLast(body) ==
  IF Len(body.items) > 0 THEN body.items[Len(body.items)].site_bundle_id
  ELSE Null

\* data?.[0]?.site_bundle_id
FirstId(body) ==
  IF Len(body.items) > 0 THEN body.items[1].site_bundle_id ELSE Null

\* the list fetch f resolves with a 2xx status and a JSON body
BundlesOk(f, body) ==
  /\ caught' = FALSE
  /\ bundles' = IF body.isArray THEN body.items ELSE <<>>
  /\ bundlesFrom' = f.seq
  /\ IF f.selected = Null /\ FirstId(body) # Null
     THEN SetSelected(FirstId(body))
     ELSE UNCHANGED << selected, repoFetches, issued, err >>

\* mutant: the catch block leaves the list on display
BundlesFailKeepsList(f) ==
  /\ caught' = TRUE
  /\ err' = ErrBundles
  /\ bundles' = bundles
  /\ bundlesFrom' = f.seq
  /\ UNCHANGED << selected, repoFetches, issued >>

\* the list fetch f rejects, answers non-2xx, or its body is not JSON
BundlesFail(f) ==
  /\ caught' = TRUE
  /\ err' = ErrBundles
  /\ bundles' = <<>>
  /\ bundlesFrom' = f.seq
  /\ UNCHANGED << selected, repoFetches, issued >>

BundlesResponse ==
  \E f \in bundlesFetches :
    /\ bundlesFetches' = bundlesFetches \ {f}
    /\ \/ \E body \in ListBodies : BundlesOk(f, body)
       \/ BundlesFail(f)
    /\ UNCHANGED << filterVars, detailVars, chatVars, voiceVars >>

\* onClick of a list entry
SelectBundle ==
  \E i \in DOMAIN bundles :
    /\ bundles[i].site_bundle_id # selected
    /\ SetSelected(bundles[i].site_bundle_id)
    /\ caught' = FALSE
    /\ UNCHANGED << filterVars, bundles, bundlesFetches, bundlesFrom,
                    detailVars, chatVars, voiceVars >>

\* ------------------------------------------------ detail-loading effect
IntroText == "Open a repo and ask me"

\* a transcript turn; `ask` and `bundle` record the ask() call the turn
\* comes from; the introductory turn has ask 0 and the bundle whose
\* detail load put it there
Turn(role, text, citations, ask, bundle) ==
  [role |-> role, text |-> text, citations |-> citations,
   ask |-> ask, bundle |-> bundle]

IntroTurn(id) == Turn("assistant", IntroText, <<>>, 0, id)

\* outcome of one of the two requests
FetchOutcomes == {"ok", "http", "reject"}

\* both requests answered 2xx with JSON bodies.  (setQuestion("") empties
\* the question input; the text of a typed ask is an input of AskClick and
\* the input field is not part of the state.)
RepoOk(f) ==
  /\ caught' = FALSE
  /\ commits' = IF RepoBody(f.selected).hasCommits
                THEN RepoBody(f.selected).commits ELSE <<>>
  /\ overview' = RepoOverview(f.selected)
  /\ chat' = << IntroTurn(f.selected) >>
  /\ err' = err

\* mutant: the catch block clears the history only
RepoFailKeepsOverview(f, r1, r2) ==
  /\ caught' = TRUE
  /\ err' = ErrRepo
  /\ commits' = <<>>
  /\ overview' = overview
  /\ chat' = chat

\* mutant: the catch block clears the overview only
RepoFailKeepsCommits(f, r1, r2) ==
  /\ caught' = TRUE
  /\ err' = ErrRepo
  /\ commits' = commits
  /\ overview' = NoOverview
  /\ chat' = chat

\* a request rejected or answered non-2xx: the catch block
RepoFail(f, r1, r2) ==
  /\ caught' = TRUE
  /\ err' = ErrRepo
  /\ commits' = <<>>
  /\ overview' = NoOverview
  /\ chat' = chat

RepoResponse ==
  \E f \in repoFetches :
    /\ repoFetches' = repoFetches \ {f}
    /\ \E r1, r2 \in FetchOutcomes :
         IF r1 = "ok" /\ r2 = "ok"
         THEN RepoOk(f)
         ELSE RepoFail(f, r1, r2)
    /\ UNCHANGED << filterVars, bundles, bundlesFetches, bundlesFrom,
                    selected, loading, chatFetches, voiceVars, issued >>

\* ------------------------------------------------------------------ ask
NoAnswerText    == "No answer returned."
UnavailableText == "Chat is unavailable right now. Check backend /chat and GEMINI_API_KEY (optional)."

\* ask(text) up to `await fetch`, called from a render whose `selected`
\* is sel
Ask(sel, text) ==
  IF sel = Null
  THEN UNCHANGED << loading, err, chat, chatFetches, issued >>
  ELSE /\ loading' = TRUE
       /\ err' = Null
       /\ chat' = Append(chat, Turn("user", text, <<>>, issued.chat + 1, sel))
       /\ chatFetches' = chatFetches \cup
            { [ ask |-> issued.chat + 1, bundle_id |-> sel, question |-> text ] }
       /\ issued' = [issued EXCEPT !.chat = @ + 1]

\* a quick button, or Enter / the Ask button with a non-blank question
AskClick ==
  \E text \in QuickTexts \cup TypedTexts :
    /\ selected # Null => Budget
    /\ Ask(selected, text)
    /\ caught' = FALSE
    /\ UNCHANGED << filterVars, bundles, bundlesFetches, bundlesFrom, selected,
                    detailVars, repoFetches, voiceVars >>

\* m.citations.slice(0,4): the citations rendered under an assistant turn
DisplayedCitations(m) ==
  SubSeq(m.citations, 1, IF Len(m.citations) < 4 THEN Len(m.citations) ELSE 4)

\* mutant: the turn keeps the first four citations only
ChatOkTruncates(f, body) ==
  /\ caught' = FALSE
  /\ chat' = Append(chat,
       Turn("assistant",
            IF body.hasAnswer /\ body.answer # "" THEN body.answer
            ELSE NoAnswerText,
            IF body.hasCitations
            THEN DisplayedCitations([citations |-> body.citations])
            ELSE <<>>,
            f.ask, f.bundle_id))
  /\ err' = err

\* the chat request f answers 2xx with a JSON object
ChatOk(f, body) ==
  /\ caught' = FALSE
  /\ chat' = Append(chat,
       Turn("assistant",
            IF body.hasAnswer /\ body.answer # "" THEN body.answer
            ELSE NoAnswerText,
            IF body.hasCitations THEN body.citations ELSE <<>>,
            f.ask, f.bundle_id))
  /\ err' = err

\* mutant: the fallback turn is added without setting the error slot
ChatFailSilent(f) ==
  /\ caught' = TRUE
  /\ err' = err
  /\ chat' = Append(chat,
       Turn("assistant", UnavailableText, <<>>, f.ask, f.bundle_id))

\* the chat request f rejects, answers non-2xx, or its body does not parse
ChatFail(f) ==
  /\ caught' = TRUE
  /\ err' = ErrChat
  /\ chat' = Append(chat,
       Turn("assistant", UnavailableText, <<>>, f.ask, f.bundle_id))

\* mutant: setLoading(false) is reached on the success path only
ChatResponseKeepsLoading ==
  \E f \in chatFetches :
    /\ chatFetches' = chatFetches \ {f}
    /\ \/ /\ \E body \in ChatBodies : ChatOk(f, body)
          /\ loading' = FALSE
       \/ /\ ChatFail(f)
          /\ loading' = loading
    /\ UNCHANGED << filterVars, bundles, bundlesFetches, bundlesFrom, selected,
                    detailVars, repoFetches, voiceVars, issued >>

ChatResponse ==
  \E f \in chatFetches :
    /\ chatFetches' = chatFetches \ {f}
    /\ \/ \E body \in ChatBodies : ChatOk(f, body)
       \/ ChatFail(f)
    /\ loading' = FALSE
    /\ UNCHANGED << filterVars, bundles, bundlesFetches, bundlesFrom, selected,
                    detailVars, repoFetches, voiceVars, issued >>

\* ---------------------------------------------------------------- speak
\* "Read aloud" of an assistant turn, up to `await fetch`
Speak ==
  /\ \E i \in DOMAIN chat : chat[i].role = "assistant"
  /\ Budget
  /\ err' = Null
  /\ ttsFetches' = ttsFetches + 1
  /\ issued' = [issued EXCEPT !.tts = @ + 1]
  /\ caught' = FALSE
  /\ UNCHANGED << filterVars, bundles, bundlesFetches, bundlesFrom, selected,
                  detailVars, repoFetches, chatVars, recognitions,
                  srSupported >>

\* mutant: the catch block also switches the waiting indicator off
SpeakResponseClearsLoading ==
  /\ ttsFetches > 0
  /\ ttsFetches' = ttsFetches - 1
  /\ \E ok \in BOOLEAN :
       /\ err' = IF ok THEN err ELSE ErrTts
       /\ caught' = ~ok
       /\ loading' = IF ok THEN loading ELSE FALSE
  /\ UNCHANGED << filterVars, bundles, bundlesFetches, bundlesFrom, selected,
                  detailVars, repoFetches, chat, chatFetches, recognitions,
                  srSupported, issued >>

\* a tts request answers: the audio plays, or the error is shown
SpeakResponse ==
  /\ ttsFetches > 0
  /\ ttsFetches' = ttsFetches - 1
  /\ \E ok \in BOOLEAN :
       /\ err' = IF ok THEN err ELSE ErrTts
       /\ caught' = ~ok
  /\ UNCHANGED << filterVars, bundles, bundlesFetches, bundlesFrom, selected,
                  detailVars, repoFetches, chatVars, recognitions,
                  srSupported, issued >>

\* ------------------------------------------------------------- voiceAsk
\* the name of a new recognition object: the first one not listening
FreeRec ==
  CHOOSE n \in 1..MaxRequests :
    /\ \A r \in recognitions : r.rec # n
    /\ \A m \in 1..(n - 1) : \E r \in recognitions : r.rec = m

\* mutant: without the capability the waiting indicator is switched on
\* before the capability is tested
VoiceAskSetsLoading ==
  /\ IF ~srSupported
     THEN /\ err' = ErrNoSR
          /\ recognitions' = recognitions
          /\ loading' = TRUE
     ELSE /\ Budget
          /\ recognitions' = recognitions \cup
               { [ rec |-> FreeRec, selected |-> selected ] }
          /\ err' = err
          /\ loading' = loading
  /\ caught' = FALSE
  /\ UNCHANGED << filterVars, bundles, bundlesFetches, bundlesFrom, selected,
                  detailVars, repoFetches, chat, chatFetches, ttsFetches,
                  srSupported, issued >>

\* the microphone button: rec.onresult keeps the ask of this render
VoiceAsk ==
  /\ IF ~srSupported
     THEN /\ err' = ErrNoSR
          /\ recognitions' = recognitions
     ELSE /\ Budget
          /\ recognitions' = recognitions \cup
               { [ rec |-> FreeRec, selected |-> selected ] }
          /\ err' = err
  /\ caught' = FALSE
  /\ UNCHANGED << filterVars, bundles, bundlesFetches, bundlesFrom, selected,
                  detailVars, repoFetches, chatVars, ttsFetches, srSupported,
                  issued >>

\* rec.onresult: the first final transcript is asked
VoiceResult ==
  \E r \in recognitions, text \in VoiceTexts :
    /\ recognitions' = recognitions \ {r}
    /\ Ask(r.selected, text)
    /\ caught' = FALSE
    /\ UNCHANGED << filterVars, bundles, bundlesFetches, bundlesFrom, selected,
                    detailVars, repoFetches, ttsFetches, srSupported >>

Next ==
  \/ SetCouncil
  \/ SetQ
  \/ SetMinApps
  \/ BundlesResponse
  \/ SelectBundle
  \/ RepoResponse
  \/ AskClick
  \/ ChatResponse
  \/ Speak
  \/ SpeakResponse
  \/ VoiceAsk
  \/ VoiceResult

Spec == Init /\ [][Next]_vars

\* ------------------------------------------------------------ properties
Last(s) == s[Len(s)]

IsPrefix(s, t) == Len(s) <= Len(t) /\ SubSeq(t, 1, Len(s)) = s

\* the data of bundle id is on display
Shows(id, cs, ov) ==
  \/ \E i \in DOMAIN cs : cs[i].bundle = id
  \/ ov.bundle = id

\* C1: when the responses of a detail load for A arrive after another
\* bundle B was selected, the displayed history and overview are B's or
\* empty, never A's.
C1_StaleDetailDiscarded ==
  [][ \A f \in repoFetches :
        (repoFetches' = repoFetches \ {f} /\ f.selected # selected)
          => ~Shows(f.selected, commits', overview') ]_vars

\* C2: the response of a list fetch issued before the fetch that produced
\* the displayed list never overwrites that list.
C2_OlderListNeverOverwrites ==
  [][ \A f \in bundlesFetches :
        (bundlesFetches' = bundlesFetches \ {f} /\ f.seq < bundlesFrom)
          => bundles' = bundles ]_vars

\* C3: a list response applied while a selection exists leaves the
\* selection as it is.
C3_ListLoadKeepsSelection ==
  [][ \A f \in bundlesFetches :
        (bundlesFetches' = bundlesFetches \ {f} /\ selected # Null)
          => selected' = selected ]_vars

\* C4: a list load that succeeds with a non-empty list while nothing is
\* selected selects the first entry, and a detail load for it is issued.
C4_DefaultSelection ==
  [][ \A f \in bundlesFetches :
        ( /\ bundlesFetches' = bundlesFetches \ {f}
          /\ selected = Null
          /\ ~caught'
          /\ Len(bundles') > 0 )
          => /\ selected' = bundles'[1].site_bundle_id
             /\ \E r \in repoFetches' \ repoFetches : r.selected = selected'
    ]_vars

\* C4 witness: the first list load returned b1, b2 with nothing selected;
\* b1 is selected and its detail load is in flight.
C4_Witness ==
  /\ bundlesFrom = 1
  /\ ~caught
  /\ bundles = << Bundle("b1"), Bundle("b2") >>
  /\ selected = "b1"
  /\ repoFetches = { [seq |-> 1, selected |-> "b1"] }

\* C5: while the selection does not change the transcript only grows: every
\* step that keeps the selection keeps every turn in its place.
C5_TranscriptAppendOnly ==
  [][ selected' = selected => IsPrefix(chat, chat') ]_vars

\* C6: turns of asks issued for two bundles are never in one transcript,
\* and a transcript that was reset for the current selection holds no turn
\* of an ask issued for another bundle.
C6_TranscriptOfOneSelection ==
  /\ \A i, j \in DOMAIN chat :
       (chat[i].ask # 0 /\ chat[j].ask # 0) => chat[i].bundle = chat[j].bundle
  /\ (Len(chat) > 0 /\ chat[1].ask = 0 /\ chat[1].bundle = selected)
       => \A i \in DOMAIN chat : chat[i].bundle = selected

\* C7: whenever ask(text) is called while a selection exists, by a click,
\* the Enter key or a recognition result, the step ends with the user turn
\* of text as the last turn of the transcript.
C7_UserTurnOnAsk ==
  [][ /\ \A f \in chatFetches' \ chatFetches :
           /\ Len(chat') = Len(chat) + 1
           /\ Last(chat').role = "user"
           /\ Last(chat').text = f.question
      /\ \A r \in recognitions \ recognitions' :
           selected # Null
             => /\ Len(chat') = Len(chat) + 1
                /\ Last(chat').role = "user"
                /\ Last(chat').text \in VoiceTexts
    ]_vars

C9_DetailFailure ==
  [][ \A f \in repoFetches :
        (repoFetches' = repoFetches \ {f} /\ caught')
          => /\ err' = ErrRepo
             /\ commits' = <<>>
             /\ overview' = NoOverview ]_vars

\* C9 witness: a request of the second detail load failed, after the first
\* load was handled: nothing is displayed.
C9_Witness ==
  /\ caught
  /\ err = ErrRepo
  /\ issued.repo = 2
  /\ repoFetches = {}
  /\ commits = <<>>
  /\ overview = NoOverview

\* C10: when a list fetch fails, the displayed list is empty, the error
\* slot holds the list failure and the selection is the one it was.
C10_ListFailure ==
  [][ \A f \in bundlesFetches :
        (bundlesFetches' = bundlesFetches \ {f} /\ caught')
          => /\ bundles' = <<>>
             /\ err' = ErrBundles
             /\ selected' = selected ]_vars

\* C10 witness: a later list fetch failed while b1 was selected.
C10_Witness ==
  /\ caught
  /\ err = ErrBundles
  /\ bundles = <<>>
  /\ bundlesFrom > 1
  /\ selected = "b1"

\* C11: without the speech-recognition capability the microphone button
\* puts the "not supported" message into the error slot and changes nothing
\* else: no turn is added, no chat request is issued, no recognition starts
\* and the waiting indicator keeps its value.
C11_VoiceUnsupported ==
  [][ (VoiceAsk /\ ~srSupported)
        => /\ err' = ErrNoSR
           /\ UNCHANGED << chat, chatFetches, loading, recognitions, issued,
                           selected, bundles, bundlesFetches, repoFetches,
                           ttsFetches, detailVars, filterVars >> ]_vars

\* C11 witness: the button was pressed without the capability while b1 was
\* selected and an ask was in flight: the message is shown, the ask is
\* still the only one.
C11_Witness ==
  /\ ~srSupported
  /\ err = ErrNoSR
  /\ selected = "b1"
  /\ recognitions = {}
  /\ Cardinality(chatFetches) = 1
  /\ issued.chat = 1
  /\ Len(chat) = 1

\* a numeral of a non-negative integer: one digit or more, nothing else
IsNatString(s) == Len(s) > 0 /\ \A i \in DOMAIN s : IsDigit(s[i])

\* C12: the min_apps of every list request is the numeral of a non-negative
\* integer, whatever was typed into the threshold input, and the inputs
\* "abc" and "" are sent as 5.
C12_MinAppsNonNegative ==
  /\ [](\A f \in bundlesFetches : IsNatString(f.url.min_apps))
  /\ [][ \A v \in { <<>>, <<"a", "b", "c">> } :
           OnMinAppsChange(v)
             => \A f \in bundlesFetches' \ bundlesFetches :
                  f.url.min_apps = <<"5">> ]_vars

\* C13: the assistant turn appended for a successful chat response holds
\* the citations of the response, every entry, in order and unchanged (none
\* when the response has no citations field); what is rendered under the
\* turn is its first four entries.
C13_CitationFidelity ==
  [][ \A f \in chatFetches, body \in ChatBodies :
        (chatFetches' = chatFetches \ {f} /\ ChatOk(f, body))
          => /\ Len(chat') = Len(chat) + 1
             /\ Last(chat').role = "assistant"
             /\ Last(chat').citations =
                  (IF body.hasCitations THEN body.citations ELSE <<>>)
             /\ Len(DisplayedCitations(Last(chat'))) <= 4
             /\ IsPrefix(DisplayedCitations(Last(chat')), body.citations) ]_vars

\* C13 witness: the last turn holds the five citations of a response and
\* four of them are rendered.
C13_Witness ==
  /\ Len(chat) > 0
  /\ Last(chat).role = "assistant"
  /\ Last(chat).citations = << Citation("r1"), Citation("r2"), Citation("r3"),
                               Citation("r4"), Citation("r5") >>
  /\ DisplayedCitations(Last(chat)) = << Citation("r1"), Citation("r2"),
                                         Citation("r3"), Citation("r4") >>

\* positions of the assistant turns of ask a in transcript c
AssistantTurnsOf(c, a) ==
  { i \in DOMAIN c : c[i].role = "assistant" /\ c[i].ask = a }

C15_TurnOrder ==
  [][ /\ \A f \in chatFetches' \ chatFetches :
           /\ IsPrefix(chat, chat')
           /\ Len(chat') = Len(chat) + 1
           /\ Last(chat').role = "user" /\ Last(chat').ask = f.ask
      /\ \A f \in chatFetches \ chatFetches' :
           ( /\ Cardinality(chatFetches) >= 2
             /\ \A g \in chatFetches : g.bundle_id = selected )
             => /\ IsPrefix(chat, chat')
                /\ Len(chat') = Len(chat) + 1
                /\ Last(chat').role = "assistant" /\ Last(chat').ask = f.ask
                /\ \E i \in DOMAIN chat :
                     chat[i].role = "user" /\ chat[i].ask = f.ask
                /\ \A i, j \in DOMAIN chat' :
                     (i < j /\ chat'[i].role = "user" /\ chat'[j].role = "user")
                       => chat'[i].ask < chat'[j].ask ]_vars

\* C16: while nothing is selected no detail request was issued and none is
\* in flight, the displayed history is empty and the overview is null.
C16_NoDetailWithoutSelection ==
  selected = Null
    => /\ issued.repo = 0
       /\ repoFetches = {}
       /\ commits = <<>>
       /\ overview = NoOverview

\* C16 witness: the council filter was changed and two list loads were
\* handled, the second one failing, all with nothing selected.
C16_Witness ==
  /\ selected = Null
  /\ bundlesFrom = 2
  /\ bundlesFetches = {}
  /\ issued.repo = 0
  /\ err = ErrBundles
  /\ commits = <<>>
  /\ overview = NoOverview

\* C17: a step of speak, the one that issues the tts request or the one
\* that handles its outcome, leaves the transcript, the waiting indicator,
\* the selection, the list, the history and the overview as they are; the
\* step that handles a failure changes the error slot and nothing else of
\* what is displayed or in flight.
C17_SpeakFrame ==
  [][ ttsFetches' # ttsFetches
        => /\ UNCHANGED << chat, loading, selected, bundles, commits, overview >>
           /\ (ttsFetches' < ttsFetches /\ caught')
                => /\ err' = ErrTts
                   /\ UNCHANGED << filterVars, bundlesFetches, repoFetches,
                                   chatFetches, recognitions >> ]_vars

\* C17 witness: reading aloud failed while an ask was in flight: the voice
\* error is shown, the ask is still waiting and its user turn is the last.
C17_Witness ==
  /\ caught
  /\ err = ErrTts
  /\ issued.tts = 1
  /\ ttsFetches = 0
  /\ loading
  /\ Cardinality(chatFetches) = 1
  /\ Len(chat) = 2
  /\ chat[1] = IntroTurn(selected)
  /\ chat[2].role = "user"

\* C18: the waiting indicator is on in every state in which a chat request
\* is in flight.
C18_LoadingWhileInFlight == chatFetches # {} => loading

\* C19: every chat request carries as bundle_id the selection of the
\* moment it is issued, whether the ask comes from a click, the Enter key
\* or a recognition result.
C19_ChatCarriesSelection ==
  [][ \A f \in chatFetches' \ chatFetches : f.bundle_id = selected ]_vars

\* the history setCommits(repoData.commits || []) displays for bundle id
CommitsOf(id) ==
  IF RepoBody(id).hasCommits THEN RepoBody(id).commits ELSE <<>>

\* C20: the displayed history and overview are those of one detail load of
\* one bundle, or the history is empty and the overview null; no entry of
\* the history belongs to another bundle than the overview.
C20_HistoryAndOverviewTogether ==
  /\ \/ commits = <<>> /\ overview = NoOverview
     \/ \E id \in {"b1", "b2"} :
          commits = CommitsOf(id) /\ overview = RepoOverview(id)
  /\ \A i \in DOMAIN commits : commits[i].bundle = overview.bundle

\* C20 witness: b2 is selected and its load is in flight while the history
\* and the overview on display are both those of b1.
C20_Witness ==
  /\ selected = "b2"
  /\ \E f \in repoFetches : f.selected = "b2"
  /\ Len(commits) = 1
  /\ commits[1].bundle = "b1"
  /\ overview = RepoOverview("b1")

====
